---- MODULE Spec2Model ----
(***************************************************************************)
(* Model of server/app.py: the /chat and /chat_stream handlers and the two *)
(* generators ollama_stream and gemini_cli_stream that /chat_stream hands  *)
(* to the response.  One request is followed from its arrival to the end   *)
(* of its response; the backend (HTTP service or subprocess) and the       *)
(* consumer of the generator are the environment.                          *)
(*                                                                         *)
(* Strings are sequences of one-character strings.  JSON values (request   *)
(* body fields, parsed fragments) are tagged records.                      *)
(***************************************************************************)
EXTENDS Integers, Sequences, FiniteSets, TLC

(* ---------------------------- bounds ----------------------------------- *)
\* longest history a request carries
HistMax == 22
\* most lines the backend delivers on one stream
MaxLines == 3

(* ------------------------ program constants ---------------------------- *)
\* messages[-20:]
MaxTurns == 20
\* message[:8000]
MaxMessageLen == 8000

(* --------------------------- JSON values ------------------------------- *)
JNone == [t |-> "null"]
JStr(s) == [t |-> "str", s |-> s]
JBool(b) == [t |-> "bool", b |-> b]
JNum(n) == [t |-> "num", n |-> n]
JDict(d) == [t |-> "dict", d |-> d]

\* Python truth value of a JSON value
Truthy(v) ==
    CASE v.t = "null" -> FALSE
      [] v.t = "str" -> v.s # <<>>
      [] v.t = "bool" -> v.b
      [] v.t = "num" -> v.n # 0
      [] v.t = "dict" -> DOMAIN v.d # {}
      [] OTHER -> FALSE

\* d.get(k) on a dict value d
Get(d, k) == IF k \in DOMAIN d.d THEN d.d[k] ELSE JNone

\* Python's `a or b`
Or(a, b) == IF Truthy(a) THEN a ELSE b

(* ----------------------------- strings --------------------------------- *)
IsSpace(c) == c \in {" ", "\n", "\t"}

RECURSIVE lstrip(_)
lstrip(s) == IF s # <<>> /\ IsSpace(Head(s)) THEN lstrip(Tail(s)) ELSE s

RECURSIVE rstripws(_)
rstripws(s) ==
    IF s # <<>> /\ IsSpace(s[Len(s)]) THEN rstripws(SubSeq(s, 1, Len(s) - 1)) ELSE s

\* a mutant of strip: the text is used untrimmed
strip_untrimmed(s) == s

\* str.strip()
strip(s) == rstripws(lstrip(s))

LowerChar(c) ==
    CASE c = "O" -> "o" [] c = "L" -> "l" [] c = "A" -> "a" [] c = "M" -> "m"
      [] c = "G" -> "g" [] c = "E" -> "e" [] c = "I" -> "i" [] c = "N" -> "n"
      [] OTHER -> c

\* str.lower()
lower(s) == [i \in 1..Len(s) |-> LowerChar(s[i])]

\* s[:n]
Prefix(s, n) == IF Len(s) > n THEN SubSeq(s, 1, n) ELSE s

\* s[-n:]
Suffix(s, n) == IF Len(s) > n THEN SubSeq(s, Len(s) - n + 1, Len(s)) ELSE s

S_ollama == <<"o", "l", "l", "a", "m", "a">>
S_gemini == <<"g", "e", "m", "i", "n", "i">>

(* ------------------------- request bodies ------------------------------ *)
\* the i-th turn of a history: turns differ in their content
Turn(i) ==
    [role |-> IF i % 2 = 1 THEN "user" ELSE "assistant",
     content |-> [k \in 1..i |-> "h"]]

History(n) == [i \in 1..n |-> Turn(i)]

\* history lengths: none, one, and the lengths around the limit
HistLens == {0, 1} \cup {n \in 0..HistMax : n >= MaxTurns - 1}

MessageValues ==
    {JNone, JStr(<<>>), JStr(<<" ">>), JStr(<<"a">>), JStr(<<" ", "a", " ">>)}

ProviderValues ==
    {JNone, JStr(<<>>), JStr(<<" ">>), JStr(S_ollama),
     JStr(<<" ", "O", "l", "l", "a", "m", "a">>), JStr(S_gemini),
     JStr(<<"f", "o", "o">>)}

\* request.get_json(): the body's message, messages and provider
Requests ==
    {[message |-> m, messages |-> History(n), provider |-> p] :
        m \in {JNone, JStr(<<" ", "a", " ">>)},
        n \in HistLens, p \in {JNone, JStr(S_gemini)}}
    \cup
    {[message |-> m, messages |-> History(n), provider |-> p] :
        m \in {JStr(<<" ">>), JStr(<<"a">>)}, n \in {0, 1}, p \in ProviderValues}
    \cup
    {[message |-> m, messages |-> <<>>, provider |-> JNone] : m \in MessageValues}

NoData == [message |-> JNone, messages |-> <<>>, provider |-> JNone]

(* --------------------------- the router -------------------------------- *)
\* (data.get("message") or "").strip()
MessageOf(d) == strip(Or(d.message, JStr(<<>>)).s)

\* data.get("messages") or []
MessagesOf(d) == d.messages

\* (data.get("provider") or "ollama").strip().lower()
ProviderOf(d) == lower(strip(Or(d.provider, JStr(S_ollama)).s))

\* a mutant of Rejected: an empty message is rejected whatever the history
Rejected_message_only(msg, msgs) == msg = <<>>

\* if not message and not messages: return 400
Rejected(msg, msgs) == msg = <<>> /\ msgs = <<>>

\* /chat: message[:8000]
LimitMessage(msg) == IF msg # <<>> /\ Len(msg) > MaxMessageLen THEN Prefix(msg, MaxMessageLen) ELSE msg

\* /chat: messages[-20:]
LimitMessages(msgs) == IF Len(msgs) > 0 THEN Suffix(msgs, MaxTurns) ELSE msgs

\* ollama_stream if provider == "ollama" else gemini_cli_stream
Generator(prov) == IF prov = S_ollama THEN "ollama_stream" ELSE "gemini_cli_stream"

\* a mutant of Payload: the user turn is appended even when the message is empty
Payload_always_appends(msg, msgs, streaming) ==
    IF msgs # <<>>
    THEN [url |-> "/api/chat",
          messages |-> Append(msgs, [role |-> "user", content |-> msg]),
          stream |-> streaming]
    ELSE [url |-> "/api/generate", prompt |-> msg, stream |-> streaming]

\* the payload and url of the call to the HTTP service
Payload(msg, msgs, streaming) ==
    IF msgs # <<>>
    THEN [url |-> "/api/chat",
          messages |-> IF msg # <<>>
                       THEN Append(msgs, [role |-> "user", content |-> msg])
                       ELSE msgs,
          stream |-> streaming]
    ELSE [url |-> "/api/generate", prompt |-> msg, stream |-> streaming]

NoCall == [url |-> "none"]

\* the turns a payload carries
TurnsOf(p) == IF p.url = "/api/chat" THEN p.messages ELSE <<>>

\* the records of the wire protocol, before serialisation
ResponseRecord(v) == [response |-> v]
ErrorRecord(text) == [error |-> text]

\* json.dumps(obj) + "\n": one serialised object, newline-terminated
_ndjson(obj) == [json |-> obj, end |-> "\n"]

NoResponse == [status |-> 0]

\* bodies the HTTP service answers a non-streaming call with
EmptyDict == [k \in {} |-> JNone]
ChatBodies ==
    {JDict([message |-> JDict([role |-> JStr(<<"r">>), content |-> JStr(<<"x">>)])]),
     JDict([response |-> JStr(<<"a">>)]),
     JDict(EmptyDict)}

(* ------------------------ requests in flight -------------------------- *)
\* number of requests in flight at the same time
NumReqs == 2
\* most lines the backend delivers to one of them
ConcMaxLines == 1

Req == 1..NumReqs

\* a request that has not arrived
IdleReq ==
    [data |-> NoData, message |-> <<>>, messages |-> <<>>, provider |-> <<>>,
     adapter |-> "none", pc |-> "idle", sent |-> NoCall, conn |-> "none",
     proc |-> "none", argv |-> <<>>, termCount |-> 0, termFailed |-> FALSE,
     rawlog |-> <<>>, fault |-> "none", j |-> JNone, out |-> <<>>,
     escaped |-> FALSE]

(* ----------------------------- state ----------------------------------- *)
VARIABLES
    endpoint,   \* "none", "/chat" or "/chat_stream"
    data,       \* the request body
    message,    \* local of the handler
    messages,   \* local of the handler
    provider,   \* local of the handler
    resp,       \* what the handler returned: status and body
    pc,         \* position of the request and of its generator
    sent,       \* payload of the HTTP call, NoCall when none was issued
    httpCalls,  \* number of HTTP calls issued
    conn,       \* streaming HTTP connection: "none", "open", "closed"
    proc,       \* subprocess: "none", "running"
    argv,       \* the prompt argument the subprocess was launched with
    termCount,  \* number of proc.terminate() calls
    termFailed, \* a proc.terminate() call raised
    rawlog,     \* lines the backend delivered so far
    fault,      \* failure injected by the environment, "none" when none
    j,          \* the fragment being processed when the generator yielded
    out,        \* records the generator yielded so far
    escaped,    \* an exception left the generator
    caller,     \* the caller of the request: "connected" or "gone"
    reqs        \* the requests in flight at the same time, each with the
                \* locals of its handler, its generator and its backend

vars == <<endpoint, data, message, messages, provider, resp, pc, sent, httpCalls,
          conn, proc, argv, termCount, termFailed, rawlog, fault, j, out, escaped,
          caller, reqs>>

\* the state of the request followed alone
single == <<endpoint, data, message, messages, provider, resp, pc, sent, httpCalls,
            conn, proc, argv, termCount, termFailed, rawlog, fault, j, out, escaped,
            caller>>

reqVars == <<endpoint, data, message, messages, provider, resp>>
httpVars == <<sent, httpCalls, conn>>
procVars == <<proc, argv, termCount, termFailed>>

Init ==
    /\ endpoint = "none"
    /\ data = NoData
    /\ message = <<>>
    /\ messages = <<>>
    /\ provider = <<>>
    /\ resp = NoResponse
    /\ pc = "idle"
    /\ sent = NoCall
    /\ httpCalls = 0
    /\ conn = "none"
    /\ proc = "none"
    /\ argv = <<>>
    /\ termCount = 0
    /\ termFailed = FALSE
    /\ rawlog = <<>>
    /\ fault = "none"
    /\ j = JNone
    /\ out = <<>>
    /\ escaped = FALSE
    /\ caller = "connected"
    /\ reqs = [r \in Req |-> IdleReq]

(* ------------------------------ /chat ---------------------------------- *)
\* reply of /chat from the service's answer
ReplyOf(body, payload) ==
    IF payload.url = "/api/chat"
    THEN LET m == Or(Get(body, "message"), JDict(EmptyDict))
         IN IF "content" \in DOMAIN m.d THEN m.d["content"] ELSE JStr(<<>>)
    ELSE IF "response" \in DOMAIN body.d THEN body.d["response"] ELSE JStr(<<>>)

\* POST /chat: the whole handler, the call to the service included
chat ==
    /\ pc = "idle"
    /\ \E d \in Requests :
        LET msg0 == MessageOf(d)
            msgs0 == MessagesOf(d)
            msg == LimitMessage(msg0)
            msgs == LimitMessages(msgs0)
        IN /\ endpoint' = "/chat"
           /\ data' = d
           /\ provider' = ProviderOf(d)
           /\ IF Rejected(msg0, msgs0)
              THEN /\ message' = msg0
                   /\ messages' = msgs0
                   /\ resp' = [status |-> 400, body |-> ErrorRecord("message is required")]
                   /\ pc' = "rejected"
                   /\ UNCHANGED <<sent, httpCalls, fault>>
              ELSE /\ message' = msg
                   /\ messages' = msgs
                   /\ sent' = Payload(msg, msgs, FALSE)
                   /\ httpCalls' = httpCalls + 1
                   /\ pc' = "chat_done"
                   /\ \/ /\ fault' = "request"
                         /\ resp' = [status |-> 502, body |-> ErrorRecord("RequestException")]
                      \/ /\ fault' = "none"
                         /\ \E body \in ChatBodies :
                              resp' = [status |-> 200,
                                       body |-> [reply |-> ReplyOf(body, Payload(msg, msgs, FALSE))]]
    /\ UNCHANGED <<conn, procVars, rawlog, j, out, escaped, caller, reqs>>

(* --------------------------- /chat_stream ------------------------------ *)
\* POST /chat_stream up to the return of the Response: the generator exists
\* but has not run
chat_stream ==
    /\ pc = "idle"
    /\ \E d \in Requests :
        LET msg == MessageOf(d)
            msgs == MessagesOf(d)
            prov == ProviderOf(d)
        IN /\ endpoint' = "/chat_stream"
           /\ data' = d
           /\ message' = msg
           /\ messages' = msgs
           /\ provider' = prov
           /\ IF Rejected(msg, msgs)
              THEN /\ resp' = [status |-> 400, body |-> ErrorRecord("message is required")]
                   /\ pc' = "rejected"
              ELSE /\ resp' = [status |-> 200, body |-> [stream |-> Generator(prov)]]
                   /\ pc' = IF Generator(prov) = "ollama_stream" THEN "o_start" ELSE "g_start"
    /\ UNCHANGED <<httpVars, procVars, rawlog, fault, j, out, escaped, caller, reqs>>

(* ------------------------- ollama_stream ------------------------------- *)
\* lines of the HTTP response body: "", text that is not JSON, or the JSON
\* text of a value
RawEmpty == [kind |-> "empty"]
RawGarbage == [kind |-> "garbage"]
RawJson(v) == [kind |-> "json", val |-> v]

Frag(d) == RawJson(JDict(d))
Assistant(c) == JDict([role |-> JStr(<<"r">>), content |-> JStr(c)])

OllamaLines ==
    {RawEmpty,
     RawGarbage,
     RawJson(JNum(1)),
     RawJson(JStr(<<"m">>)),
     Frag([response |-> JStr(<<"a">>), done |-> JBool(FALSE)]),
     Frag([response |-> JStr(<<"b">>), done |-> JBool(TRUE)]),
     Frag([message |-> Assistant(<<"x">>), done |-> JBool(FALSE)]),
     Frag([response |-> JStr(<<>>), done |-> JBool(TRUE)]),
     Frag([response |-> JStr(<<>>), message |-> Assistant(<<"y">>)]),
     Frag([response |-> JStr(<<"a">>), message |-> Assistant(<<"x">>)]),
     Frag([message |-> JStr(<<"m">>), done |-> JBool(FALSE)]),
     Frag([response |-> JNone, message |-> JDict([content |-> JNone])])}

\* json.loads(raw): the value, or a failure
json_loads(raw) ==
    IF raw.kind = "json" THEN [ok |-> TRUE, val |-> raw.val] ELSE [ok |-> FALSE]

\* a mutant of Extract: the message branch is tried before the response branch
Extract_message_first(jv) ==
    IF "message" \in DOMAIN jv.d /\ Get(jv, "message").t = "dict"
       /\ Truthy(Or(Get(Get(jv, "message"), "content"), JStr(<<>>)))
    THEN <<Or(Get(Get(jv, "message"), "content"), JStr(<<>>))>>
    ELSE IF "response" \in DOMAIN jv.d /\ Truthy(Get(jv, "response"))
         THEN <<jv.d["response"]>>
         ELSE <<>>

\* the values a fragment makes the generator yield: none or one
Extract(jv) ==
    IF "response" \in DOMAIN jv.d /\ Truthy(Get(jv, "response"))
    THEN <<jv.d["response"]>>
    ELSE IF "message" \in DOMAIN jv.d /\ Get(jv, "message").t = "dict"
         THEN LET content == Or(Get(Get(jv, "message"), "content"), JStr(<<>>))
              IN IF Truthy(content) THEN <<content>> ELSE <<>>
         ELSE <<>>

\* a mutant of IsDone: the done flag is never honoured
IsDone_never(jv) == FALSE

\* if j.get("done")
IsDone(jv) == Truthy(Get(jv, "done"))

\* a mutant of ollama_line: a line that is not JSON raises out of the loop
ollama_line_parse_raises(raw) ==
    IF raw.kind = "empty"
    THEN [act |-> "continue"]
    ELSE LET r == json_loads(raw)
         IN IF ~r.ok \/ r.val.t # "dict"
            THEN [act |-> "raise"]
            ELSE [act |-> "fragment", recs |-> Extract(r.val), jv |-> r.val]

\* a mutant of ollama_line: a JSON value that is not an object is skipped
ollama_line_nonobject_skipped(raw) ==
    IF raw.kind = "empty"
    THEN [act |-> "continue"]
    ELSE LET r == json_loads(raw)
         IN IF ~r.ok \/ r.val.t # "dict"
            THEN [act |-> "continue"]
            ELSE [act |-> "fragment", recs |-> Extract(r.val), jv |-> r.val]

\* what the loop body does with one line, up to its first yield
ollama_line(raw) ==
    IF raw.kind = "empty"
    THEN [act |-> "continue"]
    ELSE LET r == json_loads(raw)
         IN IF ~r.ok
            THEN [act |-> "continue"]
            ELSE IF r.val.t # "dict"
                 THEN [act |-> "raise"]
                 ELSE [act |-> "fragment", recs |-> Extract(r.val), jv |-> r.val]

OllamaError == _ndjson(ErrorRecord("ollama stream failed"))

\* a mutant of ollama_start: raise_for_status sits outside the try block
ollama_start_status_escapes ==
    /\ pc = "o_start"
    /\ sent' = Payload(message, messages, TRUE)
    /\ httpCalls' = httpCalls + 1
    /\ \/ /\ fault' = "connect"
          /\ conn' = conn
          /\ out' = Append(out, OllamaError)
          /\ pc' = "o_yield_err"
          /\ escaped' = escaped
       \/ /\ fault' = "status"
          /\ conn' = "closed"
          /\ out' = out
          /\ pc' = "raised"
          /\ escaped' = TRUE
       \/ /\ fault' = fault
          /\ conn' = "open"
          /\ out' = out
          /\ pc' = "o_loop"
          /\ escaped' = escaped
    /\ UNCHANGED <<reqVars, procVars, rawlog, j, caller, reqs>>

\* first next(): build the payload, requests.post, raise_for_status
ollama_start ==
    /\ pc = "o_start"
    /\ sent' = Payload(message, messages, TRUE)
    /\ httpCalls' = httpCalls + 1
    /\ \/ /\ fault' = "connect"
          /\ conn' = conn
          /\ out' = Append(out, OllamaError)
          /\ pc' = "o_yield_err"
       \/ /\ fault' = "status"
          /\ conn' = "closed"
          /\ out' = Append(out, OllamaError)
          /\ pc' = "o_yield_err"
       \/ /\ fault' = fault
          /\ conn' = "open"
          /\ out' = out
          /\ pc' = "o_loop"
    /\ UNCHANGED <<reqVars, procVars, rawlog, j, escaped, caller, reqs>>

\* one turn of `for raw in r.iter_lines()`, up to the next yield
ollama_read ==
    /\ pc = "o_loop"
    /\ \/ /\ conn' = "closed"
          /\ pc' = "done"
          /\ UNCHANGED <<rawlog, fault, j, out>>
       \/ /\ fault' = "read"
          /\ conn' = "closed"
          /\ out' = Append(out, OllamaError)
          /\ pc' = "o_yield_err"
          /\ UNCHANGED <<rawlog, j>>
       \/ /\ Len(rawlog) < MaxLines
          /\ \E raw \in OllamaLines :
               LET step == ollama_line(raw)
               IN /\ rawlog' = Append(rawlog, raw)
                  /\ fault' = fault
                  /\ CASE step.act = "continue" ->
                            /\ pc' = "o_loop"
                            /\ UNCHANGED <<conn, j, out>>
                       [] step.act = "raise" ->
                            /\ conn' = "closed"
                            /\ out' = Append(out, OllamaError)
                            /\ pc' = "o_yield_err"
                            /\ j' = j
                       [] step.act = "fragment" /\ step.recs # <<>> ->
                            /\ out' = Append(out, _ndjson(ResponseRecord(step.recs[1])))
                            /\ j' = step.jv
                            /\ pc' = "o_yield"
                            /\ conn' = conn
                       [] step.act = "fragment" /\ step.recs = <<>> ->
                            /\ IF IsDone(step.jv)
                               THEN conn' = "closed" /\ pc' = "done"
                               ELSE conn' = conn /\ pc' = "o_loop"
                            /\ UNCHANGED <<j, out>>
    /\ UNCHANGED <<reqVars, sent, httpCalls, procVars, escaped, caller, reqs>>

\* a mutant of ollama_resume: the record is yielded a second time
ollama_resume_duplicates ==
    /\ pc = "o_yield"
    /\ IF IsDone(j)
       THEN conn' = "closed" /\ pc' = "done"
       ELSE conn' = conn /\ pc' = "o_loop"
    /\ j' = JNone
    /\ out' = Append(out, out[Len(out)])
    /\ UNCHANGED <<reqVars, sent, httpCalls, procVars, rawlog, fault, escaped, caller, reqs>>

\* next() while suspended at a yielded {response}: the done check
ollama_resume ==
    /\ pc = "o_yield"
    /\ IF IsDone(j)
       THEN conn' = "closed" /\ pc' = "done"
       ELSE conn' = conn /\ pc' = "o_loop"
    /\ j' = JNone
    /\ UNCHANGED <<reqVars, sent, httpCalls, procVars, rawlog, fault, out, escaped, caller, reqs>>

\* a mutant of ollama_resume_err: the handler sits inside the loop, which
\* goes on after the {error}
ollama_resume_err_continues ==
    /\ pc = "o_yield_err"
    /\ pc' = "o_loop"
    /\ UNCHANGED <<reqVars, httpVars, procVars, rawlog, fault, j, out, escaped, caller, reqs>>

\* next() while suspended at the yielded {error}: the generator returns
ollama_resume_err ==
    /\ pc = "o_yield_err"
    /\ pc' = "done"
    /\ UNCHANGED <<reqVars, httpVars, procVars, rawlog, fault, j, out, escaped, caller, reqs>>

\* a mutant of ollama_close: the response is not used as a context manager
ollama_close_leaks ==
    /\ pc \in {"o_start", "o_yield", "o_yield_err"}
    /\ conn' = conn
    /\ pc' = "closed"
    /\ j' = JNone
    /\ UNCHANGED <<reqVars, sent, httpCalls, procVars, rawlog, fault, out, escaped, caller, reqs>>

\* a mutant of ollama_close: the handler catches GeneratorExit as well
ollama_close_caught ==
    /\ pc \in {"o_start", "o_yield", "o_yield_err"}
    /\ conn' = IF conn = "open" THEN "closed" ELSE conn
    /\ pc' = "closed"
    /\ j' = JNone
    /\ out' = IF pc = "o_yield" THEN Append(out, OllamaError) ELSE out
    /\ UNCHANGED <<reqVars, sent, httpCalls, procVars, rawlog, fault, escaped, caller, reqs>>

\* close() by the consumer: GeneratorExit at the yield leaves the with block
ollama_close ==
    /\ pc \in {"o_start", "o_yield", "o_yield_err"}
    /\ conn' = IF conn = "open" THEN "closed" ELSE conn
    /\ pc' = "closed"
    /\ j' = JNone
    /\ UNCHANGED <<reqVars, sent, httpCalls, procVars, rawlog, fault, out, escaped, caller, reqs>>

(* ----------------------- gemini_cli_stream ----------------------------- *)
\* lines of the subprocess's output; the last may lack its newline
GeminiLines ==
    {<<"1", "\n">>, <<"\n">>, <<"2", "\n">>, <<" ", "\n">>, <<"2">>}

EndsWithNewline(line) == line # <<>> /\ line[Len(line)] = "\n"

\* a mutant of rstrip: the newline is kept
rstrip_kept(line) == line

\* line.rstrip("\n")
RECURSIVE rstrip(_)
rstrip(line) ==
    IF line # <<>> /\ line[Len(line)] = "\n"
    THEN rstrip(SubSeq(line, 1, Len(line) - 1))
    ELSE line

GeminiError == _ndjson(ErrorRecord("failed to start gemini cli"))

\* finally: try: proc.terminate() except Exception: pass
finally_terminate ==
    /\ termCount' = termCount + 1
    /\ \E failed \in BOOLEAN :
         /\ termFailed' = (termFailed \/ failed)
         /\ proc' = IF failed THEN proc ELSE "terminated"

\* first next(): build args, subprocess.Popen
gemini_start ==
    /\ pc = "g_start"
    /\ argv' = message
    /\ \/ /\ fault' = "launch"
          /\ out' = Append(out, GeminiError)
          /\ pc' = "g_yield_err"
          /\ proc' = proc
       \/ /\ fault' = fault
          /\ out' = out
          /\ pc' = "g_loop"
          /\ proc' = "running"
    /\ UNCHANGED <<reqVars, httpVars, termCount, termFailed, rawlog, j, escaped, caller, reqs>>

\* one turn of `for line in proc.stdout`, up to the next yield
gemini_read ==
    /\ pc = "g_loop"
    /\ \/ /\ finally_terminate
          /\ pc' = "done"
          /\ UNCHANGED <<rawlog, fault, out, escaped>>
       \/ /\ fault' = "read"
          /\ finally_terminate
          /\ escaped' = TRUE
          /\ pc' = "raised"
          /\ UNCHANGED <<rawlog, out>>
       \/ /\ Len(rawlog) < MaxLines
          /\ rawlog # <<>> => EndsWithNewline(rawlog[Len(rawlog)])
          /\ \E raw \in GeminiLines :
               LET line == rstrip(raw)
               IN /\ rawlog' = Append(rawlog, raw)
                  /\ IF line = <<>>
                     THEN out' = out /\ pc' = "g_loop"
                     ELSE /\ out' = Append(out, _ndjson(ResponseRecord(JStr(line))))
                          /\ pc' = "g_yield"
          /\ UNCHANGED <<procVars, fault, escaped>>
    /\ UNCHANGED <<reqVars, httpVars, argv, j, caller, reqs>>

\* next() while suspended at a yielded {response}
gemini_resume ==
    /\ pc = "g_yield"
    /\ pc' = "g_loop"
    /\ UNCHANGED <<reqVars, httpVars, procVars, rawlog, fault, j, out, escaped, caller, reqs>>

\* a mutant of gemini_resume_err: the return after the {error} is missing
gemini_resume_err_no_return ==
    /\ pc = "g_yield_err"
    /\ pc' = "g_loop"
    /\ UNCHANGED <<reqVars, httpVars, procVars, rawlog, fault, j, out, escaped, caller, reqs>>

\* next() while suspended at the yielded {error}: return
gemini_resume_err ==
    /\ pc = "g_yield_err"
    /\ pc' = "done"
    /\ UNCHANGED <<reqVars, httpVars, procVars, rawlog, fault, j, out, escaped, caller, reqs>>

\* a mutant of gemini_close: terminate() follows the loop without a finally
gemini_close_no_finally ==
    /\ pc = "g_yield"
    /\ pc' = "closed"
    /\ UNCHANGED <<reqVars, httpVars, procVars, rawlog, fault, j, out, escaped, caller, reqs>>

\* close() by the consumer while suspended in the loop: GeneratorExit at the
\* yield runs the finally clause
gemini_close ==
    /\ pc = "g_yield"
    /\ finally_terminate
    /\ pc' = "closed"
    /\ UNCHANGED <<reqVars, httpVars, argv, rawlog, fault, j, out, escaped, caller, reqs>>

\* close() by the consumer before the first next() or at the yielded {error}:
\* no try block is active
gemini_close_idle ==
    /\ pc \in {"g_start", "g_yield_err"}
    /\ pc' = "closed"
    /\ UNCHANGED <<reqVars, httpVars, procVars, rawlog, fault, j, out, escaped, caller, reqs>>

(* ----------------------------- the caller ----------------------------- *)
\* the caller of a streaming response goes away while the response is being
\* produced; the server learns of it only when it writes a record
caller_disconnect ==
    /\ pc \in {"o_start", "o_loop", "o_yield", "o_yield_err",
               "g_start", "g_loop", "g_yield", "g_yield_err"}
    /\ caller = "connected"
    /\ caller' = "gone"
    /\ UNCHANGED <<reqVars, httpVars, procVars, rawlog, fault, j, out, escaped, pc, reqs>>

(* -------------------------- specification ------------------------------ *)
Next ==
    \/ chat
    \/ chat_stream
    \/ ollama_start
    \/ ollama_read
    \/ ollama_resume
    \/ ollama_resume_err
    \/ ollama_close
    \/ gemini_start
    \/ gemini_read
    \/ gemini_resume
    \/ gemini_resume_err
    \/ gemini_close
    \/ gemini_close_idle
    \/ caller_disconnect

Spec == Init /\ [][Next]_vars

\* the steps the server's thread takes on its own: it resumes or closes a
\* suspended generator and runs it to its next read.  A read of the backend
\* returns only when the backend delivers, fails or ends, which nothing in
\* the program brings about.
ServerStep ==
    \/ ollama_start
    \/ ollama_resume
    \/ ollama_resume_err
    \/ ollama_close
    \/ gemini_start
    \/ gemini_resume
    \/ gemini_resume_err
    \/ gemini_close
    \/ gemini_close_idle

FairSpec == Spec /\ WF_vars(ServerStep)

TypeOK ==
    /\ pc \in {"idle", "rejected", "chat_done", "o_start", "o_loop", "o_yield",
               "o_yield_err", "g_start", "g_loop", "g_yield", "g_yield_err",
               "done", "closed", "raised"}
    /\ conn \in {"none", "open", "closed"}
    /\ proc \in {"none", "running", "terminated"}
    /\ Len(rawlog) <= MaxLines

(* ---------------- several requests in flight at once ------------------- *)
\* Each call of chat_stream has its own locals, which its generator closes
\* over, and its generator has its own frame, response and process; the
\* module's globals (OLLAMA_BASE, MODEL) are only read.  A step of request r
\* is the step of the same name above, on reqs[r].

ConcRequests ==
    {[message |-> JStr(<<"a">>), messages |-> <<>>, provider |-> JNone],
     [message |-> JStr(<<"b">>), messages |-> History(1), provider |-> JStr(S_gemini)],
     [message |-> JStr(<<" ">>), messages |-> <<>>, provider |-> JNone]}

ConcOllamaLines ==
    {Frag([response |-> JStr(<<"a">>), done |-> JBool(FALSE)]), RawJson(JNum(1))}

ConcGeminiLines == {<<"1", "\n">>}

Set(r, q) == reqs' = [reqs EXCEPT ![r] = q]

\* finally: try: proc.terminate() except Exception: pass
Terminated(q, failed) ==
    [q EXCEPT !.termCount = @ + 1,
              !.termFailed = @ \/ failed,
              !.proc = IF failed THEN @ ELSE "terminated"]

chat_stream_of(r) ==
    /\ reqs[r].pc = "idle"
    /\ \E d \in ConcRequests :
         LET msg == MessageOf(d)
             msgs == MessagesOf(d)
             prov == ProviderOf(d)
         IN Set(r, [reqs[r] EXCEPT
                      !.data = d, !.message = msg, !.messages = msgs, !.provider = prov,
                      !.adapter = IF Rejected(msg, msgs) THEN "none" ELSE Generator(prov),
                      !.pc = IF Rejected(msg, msgs) THEN "rejected"
                             ELSE IF Generator(prov) = "ollama_stream" THEN "o_start"
                             ELSE "g_start"])
    /\ UNCHANGED single

ollama_start_of(r) ==
    LET q == [reqs[r] EXCEPT !.sent = Payload(reqs[r].message, reqs[r].messages, TRUE)]
    IN /\ reqs[r].pc = "o_start"
       /\ \/ Set(r, [q EXCEPT !.fault = "connect", !.out = Append(@, OllamaError),
                              !.pc = "o_yield_err"])
          \/ Set(r, [q EXCEPT !.fault = "status", !.conn = "closed",
                              !.out = Append(@, OllamaError), !.pc = "o_yield_err"])
          \/ Set(r, [q EXCEPT !.conn = "open", !.pc = "o_loop"])
       /\ UNCHANGED single

ollama_read_of(r) ==
    LET q == reqs[r]
    IN /\ q.pc = "o_loop"
       /\ \/ Set(r, [q EXCEPT !.conn = "closed", !.pc = "done"])
          \/ Set(r, [q EXCEPT !.fault = "read", !.conn = "closed",
                              !.out = Append(@, OllamaError), !.pc = "o_yield_err"])
          \/ /\ Len(q.rawlog) < ConcMaxLines
             /\ \E raw \in ConcOllamaLines :
                  LET step == ollama_line(raw)
                      q1 == [q EXCEPT !.rawlog = Append(@, raw)]
                  IN CASE step.act = "continue" -> Set(r, q1)
                       [] step.act = "raise" ->
                            Set(r, [q1 EXCEPT !.conn = "closed",
                                              !.out = Append(@, OllamaError),
                                              !.pc = "o_yield_err"])
                       [] step.act = "fragment" /\ step.recs # <<>> ->
                            Set(r, [q1 EXCEPT
                                      !.out = Append(@, _ndjson(ResponseRecord(step.recs[1]))),
                                      !.j = step.jv, !.pc = "o_yield"])
                       [] step.act = "fragment" /\ step.recs = <<>> ->
                            IF IsDone(step.jv)
                            THEN Set(r, [q1 EXCEPT !.conn = "closed", !.pc = "done"])
                            ELSE Set(r, q1)
       /\ UNCHANGED single

ollama_resume_of(r) ==
    LET q == reqs[r]
    IN /\ q.pc \in {"o_yield", "o_yield_err"}
       /\ IF q.pc = "o_yield_err" \/ IsDone(q.j)
          THEN Set(r, [q EXCEPT !.pc = "done", !.j = JNone,
                                !.conn = IF @ = "open" THEN "closed" ELSE @])
          ELSE Set(r, [q EXCEPT !.pc = "o_loop", !.j = JNone])
       /\ UNCHANGED single

ollama_close_of(r) ==
    LET q == reqs[r]
    IN /\ q.pc \in {"o_start", "o_yield", "o_yield_err"}
       /\ Set(r, [q EXCEPT !.pc = "closed", !.j = JNone,
                           !.conn = IF @ = "open" THEN "closed" ELSE @])
       /\ UNCHANGED single

\* a mutant of gemini_start_of: message is a global of the module, which the
\* request that arrived last has overwritten
gemini_start_of_shared(r) ==
    LET others == {o \in Req \ {r} : reqs[o].pc # "idle"}
        msg == IF others = {} THEN reqs[r].message
               ELSE reqs[CHOOSE o \in others : TRUE].message
        q == [reqs[r] EXCEPT !.argv = msg]
    IN /\ reqs[r].pc = "g_start"
       /\ \/ Set(r, [q EXCEPT !.fault = "launch", !.out = Append(@, GeminiError),
                              !.pc = "g_yield_err"])
          \/ Set(r, [q EXCEPT !.proc = "running", !.pc = "g_loop"])
       /\ UNCHANGED single

gemini_start_of(r) ==
    LET q == [reqs[r] EXCEPT !.argv = reqs[r].message]
    IN /\ reqs[r].pc = "g_start"
       /\ \/ Set(r, [q EXCEPT !.fault = "launch", !.out = Append(@, GeminiError),
                              !.pc = "g_yield_err"])
          \/ Set(r, [q EXCEPT !.proc = "running", !.pc = "g_loop"])
       /\ UNCHANGED single

gemini_read_of(r) ==
    LET q == reqs[r]
    IN /\ q.pc = "g_loop"
       /\ \/ \E failed \in BOOLEAN : Set(r, [Terminated(q, failed) EXCEPT !.pc = "done"])
          \/ \E failed \in BOOLEAN :
               Set(r, [Terminated(q, failed) EXCEPT !.fault = "read", !.escaped = TRUE,
                                                    !.pc = "raised"])
          \/ /\ Len(q.rawlog) < ConcMaxLines
             /\ \E raw \in ConcGeminiLines :
                  LET line == rstrip(raw)
                      q1 == [q EXCEPT !.rawlog = Append(@, raw)]
                  IN IF line = <<>>
                     THEN Set(r, q1)
                     ELSE Set(r, [q1 EXCEPT
                                    !.out = Append(@, _ndjson(ResponseRecord(JStr(line)))),
                                    !.pc = "g_yield"])
       /\ UNCHANGED single

gemini_resume_of(r) ==
    LET q == reqs[r]
    IN /\ q.pc \in {"g_yield", "g_yield_err"}
       /\ Set(r, [q EXCEPT !.pc = IF q.pc = "g_yield" THEN "g_loop" ELSE "done"])
       /\ UNCHANGED single

gemini_close_of(r) ==
    LET q == reqs[r]
    IN /\ q.pc \in {"g_start", "g_yield", "g_yield_err"}
       /\ IF q.pc = "g_yield"
          THEN \E failed \in BOOLEAN : Set(r, [Terminated(q, failed) EXCEPT !.pc = "closed"])
          ELSE Set(r, [q EXCEPT !.pc = "closed"])
       /\ UNCHANGED single

NextConc ==
    \E r \in Req :
        \/ chat_stream_of(r)
        \/ ollama_start_of(r)
        \/ ollama_read_of(r)
        \/ ollama_resume_of(r)
        \/ ollama_close_of(r)
        \/ gemini_start_of(r)
        \/ gemini_read_of(r)
        \/ gemini_resume_of(r)
        \/ gemini_close_of(r)

SpecConc == Init /\ [][NextConc]_vars

(* ------------------------------ claims --------------------------------- *)
\* the generator /chat_stream handed to the response, "none" when it did not
Adapter ==
    IF endpoint = "/chat_stream" /\ resp.status = 200 THEN resp.body.stream ELSE "none"

IsError(rec) == "error" \in DOMAIN rec.json
IsResponse(rec) == "response" \in DOMAIN rec.json

\* a body field that is absent or holds only whitespace
Blank(v) == v.t = "null" \/ (v.t = "str" /\ \A i \in 1..Len(v.s) : v.s[i] = " ")

\* C1: a /chat_stream request whose message is empty after trimming and whose
\* history is empty is answered at once with a non-streaming error: no HTTP
\* call is issued, no subprocess is launched and no record is ever emitted.
C1_EmptyRequestRejected ==
    (endpoint = "/chat_stream" /\ Blank(data.message) /\ data.messages = <<>>)
        => /\ pc = "rejected"
           /\ resp.status = 400
           /\ "error" \in DOMAIN resp.body
           /\ httpCalls = 0 /\ sent = NoCall /\ conn = "none"
           /\ proc = "none"
           /\ out = <<>>

C1_Witness ==
    /\ endpoint = "/chat_stream"
    /\ data.message = JStr(<<" ">>)
    /\ data.messages = <<>>
    /\ pc = "rejected"

\* C2: once the subprocess is launched it receives terminate() exactly once
\* on every way the sequence ends (end of output, close() by the consumer at
\* a yielded record, a failed read), never before the end, and a failing
\* terminate() is swallowed: only a failed read leaves the generator as an
\* exception.
C2_TerminatedExactlyOnce ==
    (Adapter = "gemini_cli_stream" /\ proc # "none")
        => /\ pc \in {"g_loop", "g_yield", "done", "closed", "raised"}
           /\ pc \in {"g_loop", "g_yield"} => termCount = 0
           /\ pc \in {"done", "closed", "raised"} => termCount = 1
           /\ escaped <=> (pc = "raised" /\ fault = "read")

C2_Witness ==
    /\ Adapter = "gemini_cli_stream"
    /\ pc = "closed"
    /\ out # <<>>
    /\ termCount = 1
    /\ termFailed
    /\ ~escaped

\* C3: an {error} record is the last record of a stream: after one was
\* yielded the generator yields nothing more, reads nothing more and ends.
C3_ErrorIsLast ==
    [][/\ \A i \in 1..Len(out') : IsError(out'[i]) => i = Len(out')
       /\ (out # <<>> /\ IsError(out[Len(out)]))
            => (out' = out /\ rawlog' = rawlog /\ pc' \in {pc, "done", "closed"})]_vars

C3_Witness ==
    /\ Adapter = "ollama_stream"
    /\ Len(out) >= 2
    /\ IsResponse(out[1])
    /\ IsError(out[Len(out)])
    /\ pc = "done"

\* a line that is a JSON object whose done flag is true
DoneLine(raw) ==
    /\ raw.kind = "json"
    /\ raw.val.t = "dict"
    /\ "done" \in DOMAIN raw.val.d
    /\ raw.val.d["done"] = JBool(TRUE)

\* C4: on the HTTP backend a fragment whose done flag is true is the last
\* line read: after it the generator is suspended at the record of that
\* fragment or has ended with the connection closed, with or without a
\* record for the fragment.
C4_DoneStopsReading ==
    Adapter = "ollama_stream" =>
        \A i \in 1..Len(rawlog) :
            DoneLine(rawlog[i]) =>
                /\ i = Len(rawlog)
                /\ pc \in {"o_yield", "done", "closed"}
                /\ pc = "o_yield" => j = rawlog[i].val
                /\ pc # "o_yield" => conn = "closed"
                /\ \A k \in 1..Len(out) : IsResponse(out[k])

C4_Witness ==
    /\ Adapter = "ollama_stream"
    /\ Len(rawlog) = 2
    /\ Len(rawlog) < MaxLines
    /\ rawlog[2] = Frag([response |-> JStr(<<>>), done |-> JBool(TRUE)])
    /\ Len(out) = 1
    /\ pc = "done"

\* the records ollama_stream yields for the lines of one response body that
\* is read to its end without a transport failure
RECURSIVE Records(_)
Records(lines) ==
    IF lines = <<>>
    THEN <<>>
    ELSE LET step == ollama_line(Head(lines))
         IN CASE step.act = "continue" -> Records(Tail(lines))
              [] step.act = "raise" -> <<OllamaError>>
              [] step.act = "fragment" ->
                    (IF step.recs = <<>>
                     THEN <<>>
                     ELSE <<_ndjson(ResponseRecord(step.recs[1]))>>)
                    \o (IF IsDone(step.jv) THEN <<>> ELSE Records(Tail(lines)))

NotGarbage(raw) == raw.kind # "garbage"

\* C5: on the HTTP backend a line that is not JSON is skipped: reading it
\* yields nothing and leaves the generator in its loop with the connection
\* open, and the records of the stream are those of the same lines without
\* the lines that are not JSON.
C5_GarbageSkipped ==
    [][(Adapter = "ollama_stream" /\ fault' = "none")
         => /\ out' = Records(SelectSeq(rawlog', NotGarbage))
            /\ rawlog' = Append(rawlog, RawGarbage)
                 => (out' = out /\ pc' = "o_loop" /\ conn' = "open")]_vars

C5_Witness ==
    /\ Adapter = "ollama_stream"
    /\ rawlog = <<Frag([response |-> JStr(<<"a">>), done |-> JBool(FALSE)]),
                  RawGarbage,
                  Frag([message |-> Assistant(<<"x">>), done |-> JBool(FALSE)])>>
    /\ Len(out) = 2
    /\ pc = "o_yield"

\* a provider field that is absent
ProviderAbsent(v) == v.t = "null"
\* a provider field that names the HTTP backend
ProviderPrimary(v) == v.t = "str" /\ v.s = S_ollama
\* a provider field that names neither backend
ProviderUnrecognized(v) ==
    v.t = "str" /\ v.s # <<>> /\ \A i \in 1..Len(v.s) : v.s[i] \in {"f", "o"}

\* C6: a /chat_stream request whose provider is absent, unrecognized or the
\* name of the HTTP backend gets ollama_stream, and no subprocess is launched
\* for it.
C6_DefaultsToPrimary ==
    (endpoint = "/chat_stream" /\ resp.status = 200
     /\ (ProviderAbsent(data.provider) \/ ProviderPrimary(data.provider)
         \/ ProviderUnrecognized(data.provider)))
        => (Adapter = "ollama_stream" /\ proc = "none")

\* the history turns a payload carries: its turns without the appended
\* user turn
HistoryOf(p) ==
    IF message # <<>> /\ TurnsOf(p) # <<>>
    THEN SubSeq(TurnsOf(p), 1, Len(TurnsOf(p)) - 1)
    ELSE TurnsOf(p)

\* C7: on /chat and on /chat_stream a history of more than 20 entries reaches
\* the backend as its last 20 entries, in their order.
C7_HistoryLimited ==
    (sent # NoCall /\ Len(data.messages) > MaxTurns)
        => HistoryOf(sent) =
             [i \in 1..MaxTurns |-> data.messages[Len(data.messages) - MaxTurns + i]]

\* C8: when the executable fails to start the stream is the one {error}
\* record: no line is read, no {response} is yielded, no process exists and
\* terminate() is never called.
C8_LaunchFailure ==
    (Adapter = "gemini_cli_stream" /\ fault = "launch")
        => /\ out = <<GeminiError>>
           /\ IsError(out[1])
           /\ rawlog = <<>>
           /\ proc = "none"
           /\ termCount = 0
           /\ pc \in {"g_yield_err", "done", "closed"}
           /\ ~escaped

C8_Witness ==
    /\ Adapter = "gemini_cli_stream"
    /\ fault = "launch"
    /\ Len(out) = 1
    /\ pc = "done"

\* a line without its one trailing newline
Chomp(line) ==
    IF line # <<>> /\ line[Len(line)] = "\n" THEN SubSeq(line, 1, Len(line) - 1) ELSE line

\* one {response} record per line that is not empty, in order
RECURSIVE LineRecords(_)
LineRecords(lines) ==
    IF lines = <<>>
    THEN <<>>
    ELSE (IF Chomp(Head(lines)) = <<>>
          THEN <<>>
          ELSE <<[json |-> [response |-> JStr(Chomp(Head(lines)))], end |-> "\n"]>>)
         \o LineRecords(Tail(lines))

\* C9: when the subprocess runs to the end of its output and the consumer
\* reads the whole stream, the records are one {response: line} per
\* non-empty line, newline stripped, in the order written; an empty line
\* gives no record and no record carries an empty response.
C9_LinesToRecords ==
    (Adapter = "gemini_cli_stream" /\ pc = "done" /\ fault = "none")
        => /\ out = LineRecords(rawlog)
           /\ \A i \in 1..Len(out) : IsResponse(out[i]) /\ out[i].json.response.s # <<>>

C9_Witness ==
    /\ Adapter = "gemini_cli_stream"
    /\ pc = "done"
    /\ rawlog = <<<<"1", "\n">>, <<"\n">>, <<"2", "\n">>>>
    /\ Len(out) = 2

\* a field of a fragment that holds a non-empty string
NonEmpty(d, k) == k \in DOMAIN d /\ d[k].t = "str" /\ d[k].s # <<>>

\* the records the extraction rule gives for a fragment
RuleRecords(d) ==
    IF NonEmpty(d, "response")
    THEN <<[json |-> [response |-> d["response"]], end |-> "\n"]>>
    ELSE IF "message" \in DOMAIN d /\ d["message"].t = "dict"
            /\ NonEmpty(d["message"].d, "content")
         THEN <<[json |-> [response |-> d["message"].d["content"]], end |-> "\n"]>>
         ELSE <<>>

\* C10: reading a line that is a JSON object yields at most one record: the
\* response field if it is non-empty, else the content of a message object
\* if it is non-empty, else nothing.
C10_ExtractionOrder ==
    [][(Adapter = "ollama_stream" /\ rawlog' # rawlog
        /\ rawlog'[Len(rawlog')].kind = "json"
        /\ rawlog'[Len(rawlog')].val.t = "dict")
          => out' = out \o RuleRecords(rawlog'[Len(rawlog')].val.d)]_vars

C10_Witness ==
    /\ Adapter = "ollama_stream"
    /\ rawlog # <<>>
    /\ rawlog[Len(rawlog)] = Frag([response |-> JStr(<<>>), message |-> Assistant(<<"y">>)])
    /\ out # <<>>
    /\ out[Len(out)] = _ndjson(ResponseRecord(JStr(<<"y">>)))
    /\ pc = "o_yield"

\* the number of {error} records of a stream
RECURSIVE ErrorCount(_)
ErrorCount(recs) ==
    IF recs = <<>> THEN 0
    ELSE (IF IsError(Head(recs)) THEN 1 ELSE 0) + ErrorCount(Tail(recs))

\* C11: on the HTTP backend a transport failure (refused connection, failure
\* status, failed or timed-out read), before the first fragment or after
\* some records, gives exactly one {error} record, the last of the stream,
\* and never leaves the generator as an exception.
C11_TransportFailureIsOneError ==
    (Adapter = "ollama_stream" /\ fault \in {"connect", "status", "read"})
        => /\ out # <<>>
           /\ IsError(out[Len(out)])
           /\ ErrorCount(out) = 1
           /\ ~escaped
           /\ pc \in {"o_yield_err", "done", "closed"}

C11_Witness ==
    /\ Adapter = "ollama_stream"
    /\ fault = "read"
    /\ Len(out) >= 2
    /\ IsResponse(out[1])
    /\ IsError(out[Len(out)])
    /\ pc = "done"

\* C12: on the process backend a failed read of the process's output after
\* some lines ends the stream with an {error} record and no exception leaves
\* the generator.
C12_ReadFailureIsErrorRecord ==
    (Adapter = "gemini_cli_stream" /\ fault = "read")
        => /\ ~escaped
           /\ out # <<>>
           /\ IsError(out[Len(out)])

\* C13: when the caller goes away while gemini_cli_stream waits for the next
\* line of the process, the process is eventually sent terminate(), whether
\* or not it writes again or exits.
C13_DisconnectTerminates ==
    (Adapter = "gemini_cli_stream" /\ caller = "gone" /\ pc = "g_loop")
        ~> (termCount >= 1)

\* C14: the records of a stream are a function of the lines the backend
\* delivered: those of ollama_stream are Records of the lines, those of
\* gemini_cli_stream are LineRecords of the lines; a step adds at most one
\* record, at the end, and only a step that reads a line adds one.
C14_OutputIsFunctionOfLines ==
    [][/\ (Adapter = "ollama_stream" /\ fault' = "none") => out' = Records(rawlog')
       /\ (Adapter = "gemini_cli_stream" /\ fault' # "launch") => out' = LineRecords(rawlog')
       /\ Len(out') <= Len(out) + 1
       /\ SubSeq(out', 1, Len(out)) = out
       /\ (rawlog' = rawlog /\ fault' = fault) => out' = out]_vars

C14_Witness ==
    /\ Adapter = "ollama_stream"
    /\ fault = "none"
    /\ Len(rawlog) = 3
    /\ Len(out) = 2
    /\ out[1] # out[2]
    /\ pc = "done"

\* C15: on the HTTP backend the connection is open only while the generator
\* is in its read loop or suspended at a {response}: it is closed when the
\* generator ends, when it yields its {error} and when the consumer closes it.
C15_ConnectionClosedOnExit ==
    Adapter = "ollama_stream" =>
        /\ pc \in {"o_yield_err", "done", "closed", "raised"} => conn # "open"
        /\ (pc \in {"done", "closed"} /\ rawlog # <<>>) => conn = "closed"

C15_Witness ==
    /\ Adapter = "ollama_stream"
    /\ pc = "closed"
    /\ conn = "closed"
    /\ out # <<>>
    /\ IsResponse(out[Len(out)])

\* C16: on /chat_stream the HTTP backend is called in streaming mode on the
\* chat endpoint with the history followed by the message as one user turn,
\* added only when the message is not empty, when the history is not empty,
\* and on the generation endpoint with the message as prompt when it is.
C16_EndpointAndTurns ==
    (Adapter = "ollama_stream" /\ sent # NoCall)
        => IF data.messages # <<>>
           THEN /\ sent.url = "/api/chat"
                /\ sent.stream
                /\ sent.messages =
                     data.messages \o
                       (IF Blank(data.message)
                        THEN <<>>
                        ELSE <<[role |-> "user", content |-> message]>>)
           ELSE /\ sent.url = "/api/generate"
                /\ sent.stream
                /\ sent.prompt = message
                /\ message # <<>>

C16_Witness ==
    /\ Adapter = "ollama_stream"
    /\ sent.url = "/api/chat"
    /\ message = <<"a">>
    /\ Len(sent.messages) = Len(data.messages) + 1
    /\ sent.messages[Len(sent.messages)] = [role |-> "user", content |-> <<"a">>]

\* C18: when the consumer closes ollama_stream while it is suspended at a
\* {response}, the generator ends there: the close adds no record, reads no
\* line and raises nothing, and nothing is yielded or read afterwards.
C18_CloseIsSilent ==
    [][(Adapter = "ollama_stream" /\ pc' = "closed")
         => (out' = out /\ rawlog' = rawlog /\ fault' = fault /\ ~escaped'
             /\ conn' # "open")]_vars

C18_Witness ==
    /\ Adapter = "ollama_stream"
    /\ pc = "closed"
    /\ fault = "none"
    /\ Len(rawlog) = 1
    /\ Len(out) = 1
    /\ IsResponse(out[1])

\* a line that is JSON text of a value that is not an object
NonObjectLine(raw) == raw.kind = "json" /\ raw.val.t # "dict"

\* C19: on the HTTP backend a line that is valid JSON but not an object is
\* the last line read: the stream ends with one {error} record, its last.
C19_NonObjectIsError ==
    Adapter = "ollama_stream" =>
        \A i \in 1..Len(rawlog) :
            NonObjectLine(rawlog[i]) =>
                /\ i = Len(rawlog)
                /\ out # <<>>
                /\ IsError(out[Len(out)])
                /\ ErrorCount(out) = 1
                /\ pc \in {"o_yield_err", "done", "closed"}
                /\ conn = "closed"

C19_Witness ==
    /\ Adapter = "ollama_stream"
    /\ Len(rawlog) = 2
    /\ NonObjectLine(rawlog[2])
    /\ Len(out) = 2
    /\ IsResponse(out[1])
    /\ fault = "none"
    /\ pc = "done"

\* C20: on the process backend the prompt argument is the trimmed message
\* alone: no history turn reaches the process or any backend, and a request
\* with a history and an empty message is not rejected and launches the
\* process with an empty prompt.
C20_PromptIsMessage ==
    /\ (endpoint = "/chat_stream" /\ data.messages # <<>>) => pc # "rejected"
    /\ (Adapter = "gemini_cli_stream" /\ (proc # "none" \/ fault = "launch"))
         => /\ argv = message
            /\ Blank(data.message) <=> argv = <<>>
            /\ \A i \in 1..Len(argv) : argv[i] # "h"
            /\ argv # <<>> => (argv[1] # " " /\ argv[Len(argv)] # " ")
            /\ sent = NoCall

C20_Witness ==
    /\ Adapter = "gemini_cli_stream"
    /\ data.messages # <<>>
    /\ Blank(data.message)
    /\ proc = "running"
    /\ argv = <<>>

\* the records a request's own input and own backend account for
OwnRecords(q) ==
    CASE q.adapter = "ollama_stream" ->
            Records(q.rawlog) \o (IF q.fault = "none" THEN <<>> ELSE <<OllamaError>>)
      [] q.adapter = "gemini_cli_stream" ->
            IF q.fault = "launch" THEN <<GeminiError>> ELSE LineRecords(q.rawlog)
      [] OTHER -> <<>>

\* C17: with several requests in flight, under every interleaving a step
\* changes the state of one request only (its locals, generator, connection
\* and process), and what a request sends, launches and yields is determined
\* by its own body and the lines of its own backend.
C17_RequestsIndependent ==
    [][\A r \in Req :
         /\ reqs'[r] # reqs[r] => \A o \in Req \ {r} : reqs'[o] = reqs[o]
         /\ reqs'[r].out = OwnRecords(reqs'[r])
         /\ reqs'[r].sent # NoCall =>
              /\ reqs'[r].adapter = "ollama_stream"
              /\ reqs'[r].sent.url = IF reqs'[r].data.messages = <<>>
                                     THEN "/api/generate" ELSE "/api/chat"
              /\ reqs'[r].sent.url = "/api/generate" =>
                   JStr(reqs'[r].sent.prompt) = reqs'[r].data.message
         /\ reqs'[r].proc # "none" =>
              /\ reqs'[r].adapter = "gemini_cli_stream"
              /\ JStr(reqs'[r].argv) = reqs'[r].data.message
              /\ reqs'[r].termCount <= 1]_vars

C17_Witness ==
    \E r \in Req : \E o \in Req :
        /\ reqs[r].adapter = "ollama_stream"
        /\ reqs[r].pc = "o_yield"
        /\ reqs[o].adapter = "gemini_cli_stream"
        /\ reqs[o].pc = "g_yield"
        /\ reqs[o].argv = <<"b">>
        /\ reqs[r].sent.url = "/api/generate"

====
